---- MODULE Spec2Model ----
(***************************************************************************)
(* Giter: the /api/git-history handler of main.go.                         *)
(*                                                                         *)
(* getGitHistory lists the repositories of one account, fetches the        *)
(* commits of each repository in listing order and answers with the        *)
(* flattened commit history.  Each handler invocation runs in its own      *)
(* goroutine; it waits inside client.Do, which returns once the status and *)
(* the headers are in, and then in the read of the response body           *)
(* (io.ReadAll, Decode), after which the deferred Close runs.  One step of *)
(* the model is the code a handler runs between two such waits.  The       *)
(* upstream API is the environment: it answers every call with any status  *)
(* and any body.                                                           *)
(***************************************************************************)
EXTENDS Integers, Sequences, FiniteSets, TLC

(* ---------------------------- bounds ----------------------------------- *)

\* longest repository listing the upstream returns (sequential runs)
MaxRepos == 2
\* longest commit list the upstream returns (sequential runs)
MaxCommits == 2
\* the same two bounds for the runs with concurrently served requests
ConcMaxRepos == 1
ConcMaxCommits == 1
\* the same two bounds for the runs with requests served one after another
SeqMaxRepos == 2
SeqMaxCommits == 1

(* ------------------------ program constants ---------------------------- *)

\* http.StatusOK
StatusOK == 200
\* http.StatusInternalServerError
StatusInternalServerError == 500
\* commit.SHA[:7]
ShaLen == 7
\* const username
username == "develop-suda"

(* --------------------------- input values ------------------------------ *)

\* the handler invocations: two, so that requests can overlap; every
\* interference between requests is one between two of them
Handlers == {1, 2}

\* the handler that serves the requests of the sequential runs
MainHandler == CHOOSE h \in Handlers : \A g \in Handlers : h <= g

\* type Repository (the fields the handler reads)
Repository == {
    [name |-> "a", full_name |-> "u/a"],
    [name |-> "b", full_name |-> "u/b"],
    [name |-> "c", full_name |-> "u/\n"] }

\* type Commit (the fields the handler reads); a sha is a string of bytes,
\* here of length 8, 7 and 6; the dates are not in list order
Commit == {
    [sha |-> <<1, 2, 3, 4, 5, 6, 7, 8>>, message |-> "init", date |-> 2, html_url |-> "h1"],
    [sha |-> <<9, 8, 7, 6, 5, 4, 3>>,    message |-> "fix",  date |-> 3, html_url |-> "h2"],
    [sha |-> <<1, 2, 3, 4, 5, 6>>,       message |-> "wip",  date |-> 1, html_url |-> "h3"] }

\* all sequences over S of length at most n
SeqUpTo(S, n) == UNION { [1 .. k -> S] : k \in 0 .. n }

\* status codes the upstream answers with: 200, another 2xx, a 4xx
Statuses == {200, 204, 404}

\* a response body: text that decodes as a JSON array of the expected
\* objects (json, with the decoded value), or text on which the decoder
\* fails, at once or after it has decoded the first elements (val)
UndecodableBody == [json |-> FALSE, val |-> <<>>]
Bodies(S, n) ==
    { [json |-> TRUE, val |-> v] : v \in SeqUpTo(S, n) }
    \cup {UndecodableBody}
    \cup { [json |-> FALSE, val |-> v] : v \in SeqUpTo(S, n - 1) }

\* what client.Do returns: no value yet, a transport error, or a response
\* of which the status is in and of the body nothing has been read
NoResp == [kind |-> "none", status |-> 0, body |-> UndecodableBody]
TransportFailure == [kind |-> "transport", status |-> 0, body |-> UndecodableBody]
Heads(St) ==
    {TransportFailure}
    \cup { [kind |-> "http", status |-> s, body |-> UndecodableBody] : s \in St }

\* what io.ReadAll or Decode reads from the body of resp; the body of a
\* response whose status is not 200 is only ever copied into the error
\* message, so those bodies are the ones of at most one element; after a
\* transport error there is no body
BodiesOf(resp, S, n) ==
    IF resp.kind # "http" THEN {UndecodableBody}
    ELSE IF resp.status = StatusOK THEN Bodies(S, n)
    ELSE Bodies(S, IF n > 1 THEN 1 ELSE n)

\* the inputs of the runs with several requests, concurrent or in a row: two
\* repositories, a sha longer and a sha shorter than 7, status 200 and 404
ConcRepository == { r \in Repository : r.name \in {"a", "b"} }
ConcCommit == { c \in Commit : Len(c.sha) # ShaLen }
ConcStatuses == {200, 404}

(* ------------------------------ errors --------------------------------- *)

NoErr == [kind |-> "nil", status |-> 0, body |-> UndecodableBody]
\* the error client.Do returned (timeout, network failure)
TransportErr == [kind |-> "transport", status |-> 0, body |-> UndecodableBody]
\* an API error whose message leaves the response body out
APIErrorNoBody(status, body) == [kind |-> "api", status |-> status, body |-> UndecodableBody]

\* fmt.Errorf("GitHub API error: %s - %s", resp.Status, string(body))
APIError(status, body) == [kind |-> "api", status |-> status, body |-> body]
\* the error of json.Decoder.Decode
DecodeErr == [kind |-> "decode", status |-> 0, body |-> UndecodableBody]
\* the error of http.NewRequest
RequestErr == [kind |-> "request", status |-> 0, body |-> UndecodableBody]

(* --------------------------- upstream calls ---------------------------- *)

\* the URL of fetchRepositories
ReposURL == [endpoint |-> "repos", arg |-> username]
\* the URL of fetchCommits
CommitsURL(repoFullName) == [endpoint |-> "commits", arg |-> repoFullName]

\* http.NewRequest fails when the URL does not parse: a control character
NewRequestFails(url) == url.arg \in {"u/\n"}

\* client.Do returned a response: its body is now held by the caller
Acquired(resp) == IF resp.kind = "http" THEN 1 ELSE 0

\* a Close that runs on the success path only
closeOnSuccessOnly(resp) == IF resp.kind = "http" /\ resp.status = StatusOK THEN 1 ELSE 0

\* defer resp.Body.Close(), registered once client.Do has returned without
\* error: the number of Close calls made by the time the function returns
deferClose(resp) == IF resp.kind = "http" THEN 1 ELSE 0

\* fetchRepositories accepting every 2xx status
fetchRepositoriesNon2xx(resp) ==
    IF resp.kind = "transport" THEN [repos |-> <<>>, err |-> TransportErr]
    ELSE IF ~(resp.status >= 200 /\ resp.status <= 299)
         THEN [repos |-> <<>>, err |-> APIError(resp.status, resp.body)]
    ELSE IF ~resp.body.json THEN [repos |-> <<>>, err |-> DecodeErr]
    ELSE [repos |-> resp.body.val, err |-> NoErr]

\* fetchRepositories, from the return of client.Do on
fetchRepositories(resp) ==
    IF resp.kind = "transport" THEN [repos |-> <<>>, err |-> TransportErr]
    ELSE IF resp.status # StatusOK
         THEN [repos |-> <<>>, err |-> APIError(resp.status, resp.body)]
    ELSE IF ~resp.body.json THEN [repos |-> <<>>, err |-> DecodeErr]
    ELSE [repos |-> resp.body.val, err |-> NoErr]

\* a fetchCommits that returns what was decoded before a decode error
fetchCommitsPartial(resp) ==
    IF resp.kind = "transport"
    THEN [commits |-> <<>>, err |-> TransportErr, decoded |-> <<>>]
    ELSE IF resp.status # StatusOK
         THEN [commits |-> <<>>, err |-> APIError(resp.status, resp.body),
               decoded |-> <<>>]
    ELSE IF ~resp.body.json
         THEN [commits |-> resp.body.val, err |-> DecodeErr, decoded |-> resp.body.val]
    ELSE [commits |-> resp.body.val, err |-> NoErr, decoded |-> resp.body.val]

\* fetchCommits, from the return of client.Do on: commits and err are the
\* values returned, decoded is what Decode had stored in the local variable
\* commits when the function returned
fetchCommits(resp) ==
    IF resp.kind = "transport"
    THEN [commits |-> <<>>, err |-> TransportErr, decoded |-> <<>>]
    ELSE IF resp.status # StatusOK
         THEN [commits |-> <<>>, err |-> APIError(resp.status, resp.body),
               decoded |-> <<>>]
    ELSE IF ~resp.body.json
         THEN [commits |-> <<>>, err |-> DecodeErr, decoded |-> resp.body.val]
    ELSE [commits |-> resp.body.val, err |-> NoErr, decoded |-> resp.body.val]

(* --------------------------- the aggregation --------------------------- *)

\* var allCommits []CommitHistory: a nil slice
NilSlice == [nil |-> TRUE, elems |-> <<>>]
\* an append that puts the new element first
appendFront(s, e) == [nil |-> FALSE, elems |-> <<e>> \o s.elems]

\* append(allCommits, e): the result is never nil
append(s, e) == [nil |-> FALSE, elems |-> Append(s.elems, e)]

\* a CommitHistory literal with commit.SHA[:6]
CommitHistoryShortBy1(repo, commit) ==
    [repository_name |-> repo.name,
     commit_message  |-> commit.message,
     commit_sha      |-> SubSeq(commit.sha, 1, ShaLen - 1),
     commit_time     |-> commit.date,
     commit_url      |-> commit.html_url]

\* a CommitHistory literal named by repo.FullName
CommitHistoryFullName(repo, commit) ==
    [repository_name |-> repo.full_name,
     commit_message  |-> commit.message,
     commit_sha      |-> SubSeq(commit.sha, 1, ShaLen),
     commit_time     |-> commit.date,
     commit_url      |-> commit.html_url]

\* the CommitHistory literal built for one commit of one repository
CommitHistory(repo, commit) ==
    [repository_name |-> repo.name,
     commit_message  |-> commit.message,
     commit_sha      |-> SubSeq(commit.sha, 1, ShaLen),
     commit_time     |-> commit.date,
     commit_url      |-> commit.html_url]

\* a conversion loop that skips a commit whose sha is shorter than 7 bytes
RECURSIVE AppendCommitsSkipShort(_, _, _, _)
AppendCommitsSkipShort(all, repo, commits, k) ==
    IF k > Len(commits) THEN [all |-> all, panic |-> FALSE]
    ELSE IF Len(commits[k].sha) < ShaLen
         THEN AppendCommitsSkipShort(all, repo, commits, k + 1)
    ELSE AppendCommitsSkipShort(append(all, CommitHistory(repo, commits[k])),
                                repo, commits, k + 1)

\* for _, commit := range commits { allCommits = append(...) } from the
\* k-th commit on; commit.SHA[:7] panics on a sha shorter than 7 bytes
RECURSIVE AppendCommits(_, _, _, _)
AppendCommits(all, repo, commits, k) ==
    IF k > Len(commits) THEN [all |-> all, panic |-> FALSE]
    ELSE IF Len(commits[k].sha) < ShaLen THEN [all |-> all, panic |-> TRUE]
    ELSE AppendCommits(append(all, CommitHistory(repo, commits[k])), repo, commits, k + 1)

(* ----------------------------- responses ------------------------------- *)

NoBody == [kind |-> "none", items |-> <<>>, error |-> NoErr]
\* c.JSON(http.StatusOK, allCommits): encoding/json writes a nil slice as
\* null and any other slice as an array
Marshal(s) ==
    IF s.nil THEN [kind |-> "null", items |-> <<>>, error |-> NoErr]
    ELSE [kind |-> "array", items |-> s.elems, error |-> NoErr]
\* gin.H{"error": err.Error()}
ErrorJSON(e) == [kind |-> "object", items |-> <<>>, error |-> e]
\* the recovery middleware of gin.Default(): status 500, nothing written
RecoveryBody == [kind |-> "empty", items |-> <<>>, error |-> NoErr]

(* ------------------------------- state --------------------------------- *)

VARIABLES
    pc,          \* per handler: "idle", "listing" (waiting inside
                 \* fetchRepositories), "fetching" (waiting inside
                 \* fetchCommits), "done" (response written)
    resp,        \* per handler: NoResp while it waits in client.Do, then what
                 \* client.Do returned, while it waits for the body
    last,        \* per handler: the response, status and body as read, of the
                 \* upstream call that returned last
    repos,       \* per handler: repos, the listing fetchRepositories returned
    err,         \* per handler: err, the error fetchRepositories returned
    idx,         \* per handler: position of the for loop in repos
    allCommits,  \* per handler: allCommits
    results,     \* per handler: what fetchCommits returned, one per iteration
    calls,       \* per handler: the URLs requested so far, in order
    status,      \* per handler: the HTTP status written, 0 before
    body,        \* per handler: the response body written
    written,     \* per handler: the statuses of the responses written, in order
    opened,      \* per handler: response bodies client.Do has handed over
    closed,      \* per handler: calls of resp.Body.Close()
    prev         \* the status answered to the request served before, 0 if none

vars == <<pc, resp, last, repos, err, idx, allCommits, results, calls, status,
          body, written, opened, closed, prev>>

\* an allCommits that is one package-level slice of all invocations
SetAllCommitsShared(f, h, v) == [g \in DOMAIN f |-> v]

\* allCommits is a local of the invocation: an assignment changes the
\* slice of that invocation alone
SetAllCommits(f, h, v) == [f EXCEPT ![h] = v]

Init ==
    /\ pc = [h \in Handlers |-> "idle"]
    /\ resp = [h \in Handlers |-> NoResp]
    /\ last = [h \in Handlers |-> NoResp]
    /\ repos = [h \in Handlers |-> <<>>]
    /\ err = [h \in Handlers |-> NoErr]
    /\ idx = [h \in Handlers |-> 0]
    /\ allCommits = [h \in Handlers |-> NilSlice]
    /\ results = [h \in Handlers |-> <<>>]
    /\ calls = [h \in Handlers |-> <<>>]
    /\ status = [h \in Handlers |-> 0]
    /\ body = [h \in Handlers |-> NoBody]
    /\ written = [h \in Handlers |-> <<>>]
    /\ opened = [h \in Handlers |-> 0]
    /\ closed = [h \in Handlers |-> 0]
    /\ prev = 0

(* ---------------------- the handler, piece by piece -------------------- *)

\* the URLs of the repositories from position i on
RECURSIVE RemainingURLs(_, _)
RemainingURLs(rs, i) ==
    IF i > Len(rs) THEN <<>>
    ELSE <<CommitsURL(rs[i].full_name)>> \o RemainingURLs(rs, i + 1)

\* a loop that requests the commits of all remaining repositories at once
RECURSIVE NextRepoFanOut(_, _, _, _, _)
NextRepoFanOut(rs, i, all, res, cs) ==
    IF i > Len(rs)
    THEN [pc |-> "done", idx |-> i, allCommits |-> all, results |-> res,
          calls |-> cs, status |-> StatusOK, body |-> Marshal(all),
          written |-> <<StatusOK>>]
    ELSE [pc |-> "fetching", idx |-> i, allCommits |-> all, results |-> res,
          calls |-> cs \o RemainingURLs(rs, i),
          status |-> 0, body |-> NoBody, written |-> <<>>]

\* the for loop over repos from position i on, up to the next client.Do or,
\* past the last repository, c.JSON(http.StatusOK, allCommits); a
\* fetchCommits whose http.NewRequest fails returns at once and is skipped
RECURSIVE NextRepo(_, _, _, _, _)
NextRepo(rs, i, all, res, cs) ==
    IF i > Len(rs)
    THEN [pc |-> "done", idx |-> i, allCommits |-> all, results |-> res,
          calls |-> cs, status |-> StatusOK, body |-> Marshal(all),
          written |-> <<StatusOK>>]
    ELSE IF NewRequestFails(CommitsURL(rs[i].full_name))
    THEN NextRepo(rs, i + 1, all,
                  Append(res, [commits |-> <<>>, err |-> RequestErr.kind,
                               decoded |-> 0]), cs)
    ELSE [pc |-> "fetching", idx |-> i, allCommits |-> all, results |-> res,
          calls |-> Append(cs, CommitsURL(rs[i].full_name)),
          status |-> 0, body |-> NoBody, written |-> <<>>]

\* a getGitHistory that goes on to the loop whatever fetchRepositories returned
AfterListNoAbort(r, cs) ==
    [repos |-> r.repos, err |-> r.err] @@ NextRepo(r.repos, 1, NilSlice, <<>>, cs)

\* getGitHistory once fetchRepositories has returned r
AfterList(r, cs) ==
    IF r.err # NoErr
    THEN [repos |-> <<>>, err |-> r.err, pc |-> "done", idx |-> 0,
          allCommits |-> NilSlice, results |-> <<>>, calls |-> cs,
          status |-> StatusInternalServerError, body |-> ErrorJSON(r.err),
          written |-> <<StatusInternalServerError>>]
    ELSE [repos |-> r.repos, err |-> NoErr] @@ NextRepo(r.repos, 1, NilSlice, <<>>, cs)

\* a getGitHistory that requests the commits of a repository a second time
\* when the first request failed
AfterCommitsRetry(rs, i, all, res, cs, r) ==
    LET res2 == Append(res, [commits |-> r.commits, err |-> r.err.kind,
                             decoded |-> Len(r.decoded)])
    IN  IF r.err # NoErr
        THEN IF cs[Len(cs)] # cs[Len(cs) - 1]
             THEN [pc |-> "fetching", idx |-> i, allCommits |-> all,
                   results |-> res, calls |-> Append(cs, cs[Len(cs)]),
                   status |-> 0, body |-> NoBody, written |-> <<>>]
             ELSE NextRepo(rs, i + 1, all, res2, cs)
        ELSE LET conv == AppendCommits(all, rs[i], r.commits, 1)
             IN  IF conv.panic
                 THEN [pc |-> "done", idx |-> i, allCommits |-> conv.all,
                       results |-> res2, calls |-> cs,
                       status |-> StatusInternalServerError, body |-> RecoveryBody,
                       written |-> <<StatusInternalServerError>>]
                 ELSE NextRepo(rs, i + 1, conv.all, res2, cs)

\* getGitHistory once the fetchCommits of repository rs[i] has returned r
AfterCommits(rs, i, all, res, cs, r) ==
    LET res2 == Append(res, [commits |-> r.commits, err |-> r.err.kind,
                             decoded |-> Len(r.decoded)])
    IN  IF r.err # NoErr
        THEN NextRepo(rs, i + 1, all, res2, cs)
        ELSE LET conv == AppendCommits(all, rs[i], r.commits, 1)
             IN  IF conv.panic
                 THEN [pc |-> "done", idx |-> i, allCommits |-> conv.all,
                       results |-> res2, calls |-> cs,
                       status |-> StatusInternalServerError, body |-> RecoveryBody,
                       written |-> <<StatusInternalServerError>>]
                 ELSE NextRepo(rs, i + 1, conv.all, res2, cs)

(* ------------------------------ actions -------------------------------- *)

\* a handler that answers from the response it wrote last, without a call
HandleRequestCached(h) ==
    /\ pc[h] \in {"idle", "done"}
    /\ IF pc[h] = "done" /\ status[h] = StatusOK
       THEN /\ calls' = [calls EXCEPT ![h] = <<>>]
            /\ prev' = status[h]
            /\ UNCHANGED <<pc, resp, last, repos, err, idx, allCommits, results,
                           status, body, written, opened, closed>>
       ELSE /\ pc' = [pc EXCEPT ![h] = "listing"]
            /\ resp' = [resp EXCEPT ![h] = NoResp]
            /\ last' = [last EXCEPT ![h] = NoResp]
            /\ repos' = [repos EXCEPT ![h] = <<>>]
            /\ err' = [err EXCEPT ![h] = NoErr]
            /\ idx' = [idx EXCEPT ![h] = 0]
            /\ allCommits' = [allCommits EXCEPT ![h] = NilSlice]
            /\ results' = [results EXCEPT ![h] = <<>>]
            /\ calls' = [calls EXCEPT ![h] = <<ReposURL>>]
            /\ status' = [status EXCEPT ![h] = 0]
            /\ body' = [body EXCEPT ![h] = NoBody]
            /\ written' = [written EXCEPT ![h] = <<>>]
            /\ opened' = [opened EXCEPT ![h] = 0]
            /\ closed' = [closed EXCEPT ![h] = 0]
            /\ prev' = status[h]

\* a request arrives: getGitHistory runs up to the client.Do of
\* fetchRepositories
HandleRequest(h) ==
    /\ pc[h] \in {"idle", "done"}
    /\ pc' = [pc EXCEPT ![h] = "listing"]
    /\ resp' = [resp EXCEPT ![h] = NoResp]
    /\ last' = [last EXCEPT ![h] = NoResp]
    /\ repos' = [repos EXCEPT ![h] = <<>>]
    /\ err' = [err EXCEPT ![h] = NoErr]
    /\ idx' = [idx EXCEPT ![h] = 0]
    /\ allCommits' = [allCommits EXCEPT ![h] = NilSlice]
    /\ results' = [results EXCEPT ![h] = <<>>]
    /\ calls' = [calls EXCEPT ![h] = <<ReposURL>>]
    /\ status' = [status EXCEPT ![h] = 0]
    /\ body' = [body EXCEPT ![h] = NoBody]
    /\ written' = [written EXCEPT ![h] = <<>>]
    /\ opened' = [opened EXCEPT ![h] = 0]
    /\ closed' = [closed EXCEPT ![h] = 0]
    /\ prev' = status[h]

\* the first request an invocation slot serves
FirstRequest(h) ==
    /\ pc[h] = "idle"
    /\ HandleRequest(h)

\* client.Do of fetchRepositories returns r: a transport error, or a
\* response whose body the handler now holds and starts to read
ReposReply(h, r) ==
    /\ pc[h] = "listing"
    /\ resp[h] = NoResp
    /\ resp' = [resp EXCEPT ![h] = r]
    /\ opened' = [opened EXCEPT ![h] = @ + Acquired(r)]
    /\ UNCHANGED <<pc, last, repos, err, idx, allCommits, results, calls, status,
                   body, written, closed, prev>>

\* client.Do of fetchCommits returns r
CommitsReply(h, r) ==
    /\ pc[h] = "fetching"
    /\ resp[h] = NoResp
    /\ resp' = [resp EXCEPT ![h] = r]
    /\ opened' = [opened EXCEPT ![h] = @ + Acquired(r)]
    /\ UNCHANGED <<pc, last, repos, err, idx, allCommits, results, calls, status,
                   body, written, closed, prev>>

\* fetchRepositories returns, after the read of the body has given b where
\* there is a body: the deferred Close runs and the handler goes on to the
\* next client.Do or to its response
AfterFetchRepositories(h, b) ==
    /\ pc[h] = "listing"
    /\ resp[h] # NoResp
    /\ LET full == [resp[h] EXCEPT !.body = b]
           n == AfterList(fetchRepositories(full), calls[h])
       IN  /\ last' = [last EXCEPT ![h] = full]
           /\ pc' = [pc EXCEPT ![h] = n.pc]
           /\ repos' = [repos EXCEPT ![h] = n.repos]
           /\ err' = [err EXCEPT ![h] = n.err]
           /\ idx' = [idx EXCEPT ![h] = n.idx]
           /\ allCommits' = SetAllCommits(allCommits, h, n.allCommits)
           /\ results' = [results EXCEPT ![h] = n.results]
           /\ calls' = [calls EXCEPT ![h] = n.calls]
           /\ status' = [status EXCEPT ![h] = n.status]
           /\ body' = [body EXCEPT ![h] = n.body]
           /\ written' = [written EXCEPT ![h] = @ \o n.written]
    /\ closed' = [closed EXCEPT ![h] = @ + deferClose(resp[h])]
    /\ resp' = [resp EXCEPT ![h] = NoResp]
    /\ UNCHANGED <<opened, prev>>

\* fetchCommits returns, after the read of the body has given b where there
\* is a body: the deferred Close runs, the handler converts the commits and
\* goes on to the next client.Do or to its response
AfterFetchCommits(h, b) ==
    /\ pc[h] = "fetching"
    /\ resp[h] # NoResp
    /\ LET full == [resp[h] EXCEPT !.body = b]
           n == AfterCommits(repos[h], idx[h], allCommits[h], results[h],
                             calls[h], fetchCommits(full))
       IN  /\ last' = [last EXCEPT ![h] = full]
           /\ pc' = [pc EXCEPT ![h] = n.pc]
           /\ idx' = [idx EXCEPT ![h] = n.idx]
           /\ allCommits' = SetAllCommits(allCommits, h, n.allCommits)
           /\ results' = [results EXCEPT ![h] = n.results]
           /\ calls' = [calls EXCEPT ![h] = n.calls]
           /\ status' = [status EXCEPT ![h] = n.status]
           /\ body' = [body EXCEPT ![h] = n.body]
           /\ written' = [written EXCEPT ![h] = @ \o n.written]
    /\ closed' = [closed EXCEPT ![h] = @ + deferClose(resp[h])]
    /\ resp' = [resp EXCEPT ![h] = NoResp]
    /\ UNCHANGED <<repos, err, opened, prev>>

(* --------------------------- specifications ---------------------------- *)

\* one request, served from its arrival to its response
Next ==
    \/ FirstRequest(MainHandler)
    \/ \E r \in Heads(Statuses) : ReposReply(MainHandler, r)
    \/ \E r \in Heads(Statuses) : CommitsReply(MainHandler, r)
    \/ \E b \in BodiesOf(resp[MainHandler], Repository, MaxRepos) :
           AfterFetchRepositories(MainHandler, b)
    \/ \E b \in BodiesOf(resp[MainHandler], Commit, MaxCommits) :
           AfterFetchCommits(MainHandler, b)

Spec == Init /\ [][Next]_vars

\* requests served concurrently, each by its own handler invocation
NextConc ==
    \E h \in Handlers :
        \/ FirstRequest(h)
        \/ \E r \in Heads(ConcStatuses) : ReposReply(h, r)
        \/ \E r \in Heads(ConcStatuses) : CommitsReply(h, r)
        \/ \E b \in BodiesOf(resp[h], ConcRepository, ConcMaxRepos) :
               AfterFetchRepositories(h, b)
        \/ \E b \in BodiesOf(resp[h], ConcCommit, ConcMaxCommits) :
               AfterFetchCommits(h, b)

SpecConc == Init /\ [][NextConc]_vars

\* requests served one after the other: when a request has been answered
\* the next one is served, by a new invocation of getGitHistory
NextSeq ==
    \/ HandleRequest(MainHandler)
    \/ \E r \in Heads(ConcStatuses) : ReposReply(MainHandler, r)
    \/ \E r \in Heads(ConcStatuses) : CommitsReply(MainHandler, r)
    \/ \E b \in BodiesOf(resp[MainHandler], ConcRepository, SeqMaxRepos) :
           AfterFetchRepositories(MainHandler, b)
    \/ \E b \in BodiesOf(resp[MainHandler], ConcCommit, SeqMaxCommits) :
           AfterFetchCommits(MainHandler, b)

SpecSeq == Init /\ [][NextSeq]_vars

\* every upstream call returns and every read of a body ends
\* (client.Timeout bounds both), and the handler goroutine runs on when
\* they have; requests need not keep arriving
Fairness ==
    /\ WF_vars(\E r \in Heads(ConcStatuses) : ReposReply(MainHandler, r))
    /\ WF_vars(\E r \in Heads(ConcStatuses) : CommitsReply(MainHandler, r))
    /\ WF_vars(\E b \in BodiesOf(resp[MainHandler], ConcRepository, SeqMaxRepos) :
                   AfterFetchRepositories(MainHandler, b))
    /\ WF_vars(\E b \in BodiesOf(resp[MainHandler], ConcCommit, SeqMaxCommits) :
                   AfterFetchCommits(MainHandler, b))

SpecLive == Init /\ [][NextSeq]_vars /\ Fairness

TypeOK ==
    /\ \A h \in Handlers : pc[h] \in {"idle", "listing", "fetching", "done"}
    /\ \A h \in Handlers : status[h] \in {0, StatusOK, StatusInternalServerError}

(* ----------------------- helpers of the properties --------------------- *)

Done(h) == pc[h] = "done"
\* the handler has answered and its listing call had succeeded
DoneListed(h) == pc[h] = "done" /\ err[h] = NoErr
\* the i-th fetchCommits of the request succeeded
FetchOk(res, i) == res[i].err = "nil"

Is2xx(s) == s >= 200 /\ s <= 299

\* number of commits the successful fetches returned, from position i on
RECURSIVE SumCommits(_, _)
SumCommits(res, i) ==
    IF i > Len(res) THEN 0
    ELSE (IF FetchOk(res, i) THEN Len(res[i].commits) ELSE 0) + SumCommits(res, i + 1)

\* the commits the successful fetches returned, one after the other
RECURSIVE FetchedCommits(_, _)
FetchedCommits(res, i) ==
    IF i > Len(res) THEN <<>>
    ELSE (IF FetchOk(res, i) THEN res[i].commits ELSE <<>>) \o FetchedCommits(res, i + 1)

\* the entry a (repository, commit) pair stands for
EntryOf(repo, commit) ==
    [repository_name |-> repo.name,
     commit_message  |-> commit.message,
     commit_sha      |-> [j \in 1 .. (IF Len(commit.sha) < ShaLen THEN Len(commit.sha) ELSE ShaLen)
                             |-> commit.sha[j]],
     commit_time     |-> commit.date,
     commit_url      |-> commit.html_url]

\* the entries of the successful fetches: repository by repository in
\* listing order, the commits of one repository in the order returned
RECURSIVE ExpectedEntries(_, _, _)
ExpectedEntries(rs, res, i) ==
    IF i > Len(res) THEN <<>>
    ELSE (IF FetchOk(res, i)
          THEN [k \in 1 .. Len(res[i].commits) |-> EntryOf(rs[i], res[i].commits[k])]
          ELSE <<>>)
         \o ExpectedEntries(rs, res, i + 1)

IsPrefix(a, b) == Len(a) <= Len(b) /\ \A k \in DOMAIN a : a[k] = b[k]
Count(e, s) == Cardinality({k \in DOMAIN s : s[k] = e})
Range(s) == {s[k] : k \in DOMAIN s}

(* ------------------------------- C1 ------------------------------------ *)

\* C1: when fetchRepositories fails (transport error, status other than
\* 200, undecodable body) the handler answers 500 and has issued no
\* fetchCommits call: the listing call is the only call of the request.
C1_ListFailureIs500NoFetch ==
    \A h \in Handlers :
        err[h] # NoErr =>
            /\ pc[h] = "done"
            /\ status[h] = StatusInternalServerError
            /\ \A k \in DOMAIN calls[h] : calls[h][k].endpoint # "commits"
            /\ results[h] = <<>>

C1_Witness ==
    \E h \in Handlers :
        /\ err[h].kind = "api" /\ err[h].status = 404
        /\ status[h] = StatusInternalServerError
        /\ calls[h] = <<ReposURL>>

(* ------------------------------- C2 ------------------------------------ *)

\* C2: when listing succeeds and the commit fetch of some repositories
\* fails, the response carries every entry of every other repository and no
\* entry of a failed one: each entry occurs in the response as often as in
\* the successful fetches.
C2_FailedRepoContributesNothing ==
    \A h \in Handlers :
        (DoneListed(h) /\ \E i \in DOMAIN results[h] :
                               results[h][i].err \in {"transport", "api", "decode"}) =>
            LET exp == ExpectedEntries(repos[h], results[h], 1)
            IN  \A e \in Range(exp) \cup Range(body[h].items) :
                    Count(e, body[h].items) = Count(e, exp)

(* ------------------------------- C3 ------------------------------------ *)

\* C3: when listing succeeds and no entry is accumulated (no repository,
\* every fetch failed or returned no commit) the response is 200 with an
\* empty JSON array, never null.
C3_EmptyArrayNotNull ==
    \A h \in Handlers :
        (/\ DoneListed(h)
         /\ Len(results[h]) = Len(repos[h])
         /\ \A i \in DOMAIN results[h] :
               ~FetchOk(results[h], i) \/ results[h][i].commits = <<>>) =>
            /\ status[h] = StatusOK
            /\ body[h].kind = "array"
            /\ body[h].items = <<>>

(* ------------------------------- C4 ------------------------------------ *)

\* C4: a 500 is answered only when the listing call failed; whenever the
\* listing succeeded the status is 200.
C4_ListedImplies200 ==
    \A h \in Handlers : DoneListed(h) => status[h] = StatusOK

(* ------------------------------- C5 ------------------------------------ *)

\* C5: whenever listing succeeded, the number of entries of the response is
\* the sum of the commit counts of the fetches that succeeded.
C5_EntryCountIsSum ==
    \A h \in Handlers :
        DoneListed(h) => Len(body[h].items) = SumCommits(results[h], 1)

(* ------------------------------- C6 ------------------------------------ *)

\* C6: the sequence of a 200 response is the concatenation, in listing
\* order, of the entries of each successfully fetched repository in the
\* order the upstream returned its commits; nothing is re-sorted.
C6_ListingOrderNoSort ==
    \A h \in Handlers :
        status[h] = StatusOK =>
            body[h].items = ExpectedEntries(repos[h], results[h], 1)

\* two repositories, the first with two commits, oldest first
C6_Witness ==
    \E h \in Handlers :
        /\ status[h] = StatusOK
        /\ Len(body[h].items) = 3
        /\ body[h].items[1].repository_name = body[h].items[2].repository_name
        /\ body[h].items[2].repository_name # body[h].items[3].repository_name
        /\ body[h].items[1].commit_time < body[h].items[2].commit_time
        /\ body[h].items[3].commit_time < body[h].items[2].commit_time

(* ------------------------------- C7 ------------------------------------ *)

\* the error with which the call that handler h is returning from ends
ReturnedErrKind(h) ==
    IF pc[h] = "listing" THEN err'[h].kind
    ELSE results'[h][Len(results[h]) + 1].err

\* handler h returns from an upstream call that got an HTTP response
ReturnsFromCall(h) == resp[h].kind = "http" /\ resp'[h] = NoResp /\ pc[h] \in {"listing", "fetching"}

\* C7 as claimed: an upstream call ends in an API error exactly when the
\* status is outside 2xx; with a 2xx status the body is decoded.
C7_ApiErrorIffNon2xx ==
    [][\A h \in Handlers :
          ReturnsFromCall(h) =>
              /\ (ReturnedErrKind(h) = "api") <=> ~Is2xx(resp[h].status)
              /\ (Is2xx(resp[h].status) /\ last'[h].body.json) => ReturnedErrKind(h) = "nil"]_vars

\* C7 as amended: an upstream call ends in an API error exactly when the
\* status is not 200; only with status 200 is the body decoded, and the
\* call then succeeds exactly when the body decodes.
C7_ApiErrorIffNot200 ==
    [][\A h \in Handlers :
          ReturnsFromCall(h) =>
              /\ (ReturnedErrKind(h) = "api") <=> resp[h].status # StatusOK
              /\ (resp[h].status = StatusOK /\ last'[h].body.json) <=> ReturnedErrKind(h) = "nil"
              /\ (resp[h].status = StatusOK /\ ~last'[h].body.json) <=> ReturnedErrKind(h) = "decode"]_vars

\* a 2xx status other than 200 with a decodable body ended in an API error
C7_Witness ==
    \E h \in Handlers :
        /\ err[h].kind = "api" /\ err[h].status = 204 /\ err[h].body.json
        /\ status[h] = StatusInternalServerError

(* ------------------------------- C8 ------------------------------------ *)

\* C8: the commit_sha of an entry is the first 7 bytes of the sha of its
\* commit, whenever that sha has at least 7 bytes.
C8_ShaPrefix7 ==
    \A h \in Handlers :
        \A k \in DOMAIN allCommits[h].elems :
            LET sha == FetchedCommits(results[h], 1)[k].sha
                short == allCommits[h].elems[k].commit_sha
            IN  Len(sha) >= ShaLen =>
                    /\ Len(short) = 7
                    /\ \A j \in 1 .. 7 : short[j] = sha[j]

\* a response with an entry of a longer sha and an entry of a sha of 7 bytes
C8_Witness ==
    \E h \in Handlers :
        /\ status[h] = StatusOK
        /\ \E k \in DOMAIN body[h].items :
              /\ Len(FetchedCommits(results[h], 1)[k].sha) > 7
              /\ body[h].items[k].commit_sha = <<1, 2, 3, 4, 5, 6, 7>>
        /\ \E k \in DOMAIN body[h].items :
              /\ Len(FetchedCommits(results[h], 1)[k].sha) = 7
              /\ body[h].items[k].commit_sha = <<9, 8, 7, 6, 5, 4, 3>>

(* ------------------------------- C9 ------------------------------------ *)

\* C9: no call is retried: a request calls the listing endpoint once and,
\* when listing succeeds with N repositories (whose URLs can be requested),
\* the commits endpoint once per listed repository, in listing order.
C9_OneCallPerRepository ==
    \A h \in Handlers :
        /\ pc[h] # "idle" => Count(ReposURL, calls[h]) = 1
        /\ (DoneListed(h)
            /\ \A i \in DOMAIN repos[h] : ~NewRequestFails(CommitsURL(repos[h][i].full_name))) =>
               calls[h] = <<ReposURL>> \o [i \in DOMAIN repos[h] |-> CommitsURL(repos[h][i].full_name)]

(* ------------------------------- C10 ----------------------------------- *)

\* the first fetch whose conversion faults, 0 if none
RECURSIVE FaultAt(_, _)
FaultAt(res, i) ==
    IF i > Len(res) THEN 0
    ELSE IF FetchOk(res, i) /\ \E k \in DOMAIN res[i].commits : Len(res[i].commits[k].sha) < ShaLen
         THEN i
    ELSE FaultAt(res, i + 1)

\* the response a request owes to the upstream responses of its own calls
OwnResponse(e, rs, res) ==
    IF e # NoErr THEN <<StatusInternalServerError, ErrorJSON(e)>>
    ELSE IF FaultAt(res, 1) # 0 THEN <<StatusInternalServerError, RecoveryBody>>
    ELSE LET exp == ExpectedEntries(rs, res, 1)
         IN  <<StatusOK, [kind |-> IF exp = <<>> THEN "null" ELSE "array",
                          items |-> exp, error |-> NoErr]>>

\* C10: under any interleaving of concurrently served requests, the response
\* of each request is the one derived from the upstream responses to its own
\* calls, and the entries it has accumulated so far are those of its own
\* fetches.
C10_RequestsIsolated ==
    \A h \in Handlers :
        /\ Done(h) => <<status[h], body[h]>> = OwnResponse(err[h], repos[h], results[h])
        /\ IsPrefix(allCommits[h].elems, ExpectedEntries(repos[h], results[h], 1))

\* one request has answered with its entry while another, which listed a
\* different repository, is reading the body of its commits response
C10_Witness ==
    \E g, h \in Handlers :
        /\ g # h
        /\ status[g] = StatusOK /\ Len(body[g].items) = 1
        /\ pc[h] = "fetching" /\ resp[h].kind = "http" /\ resp[h].status = StatusOK
        /\ repos[h][1].name # body[g].items[1].repository_name

(* ------------------------------- C11 ----------------------------------- *)

\* the commit URLs requested for the first k repositories of the listing
RECURSIVE IssuedCommitCalls(_, _)
IssuedCommitCalls(rs, k) ==
    IF k = 0 THEN <<>>
    ELSE IssuedCommitCalls(rs, k - 1)
         \o (IF NewRequestFails(CommitsURL(rs[k].full_name)) THEN <<>>
             ELSE <<CommitsURL(rs[k].full_name)>>)

\* the repositories a request has reached: the one being fetched included
Reached(h) == IF pc[h] = "fetching" THEN idx[h] ELSE Len(results[h])

\* C11: nothing persists across requests: whatever was served before, a
\* request issues its own listing call and its own commit calls, and its
\* response is the one its own upstream responses determine.
C11_NothingPersists ==
    \A h \in Handlers :
        pc[h] # "idle" =>
            /\ calls[h] = <<ReposURL>> \o IssuedCommitCalls(repos[h], Reached(h))
            /\ Done(h) => /\ status[h] = OwnResponse(err[h], repos[h], results[h])[1]
                          /\ body[h] = OwnResponse(err[h], repos[h], results[h])[2]
                          /\ written[h] = <<status[h]>>

\* a request served after one that was answered 500 is answered 200 with
\* entries, after one call per listed repository
C11_Witness ==
    \E h \in Handlers :
        /\ Done(h) /\ prev = StatusInternalServerError
        /\ status[h] = StatusOK /\ body[h].items # <<>>
        /\ Len(calls[h]) = 1 + Len(repos[h])

(* ------------------------------- C12 ----------------------------------- *)

\* handler h returns from its listing call with an error
ListingFails(h) ==
    pc[h] = "listing" /\ resp[h] # NoResp /\ resp'[h] = NoResp /\ err'[h] # NoErr

\* C12: on a listing failure the 500 body is a JSON object with the single
\* field "error" whose value is the error fetchRepositories returned; for a
\* response with another status than 200 that error carries the status and
\* the raw body of the response.
C12_ErrorBodyIsListingError ==
    [][\A h \in Handlers :
          ListingFails(h) =>
              /\ status'[h] = StatusInternalServerError
              /\ body'[h].kind = "object" /\ body'[h].items = <<>>
              /\ body'[h].error = err'[h]
              /\ resp[h].kind = "transport" => body'[h].error.kind = "transport"
              /\ (resp[h].kind = "http" /\ resp[h].status # StatusOK) =>
                    /\ body'[h].error.kind = "api"
                    /\ body'[h].error.status = resp[h].status
                    /\ body'[h].error.body = last'[h].body
              /\ (resp[h].kind = "http" /\ resp[h].status = StatusOK) =>
                    body'[h].error.kind = "decode"]_vars

\* a 404 with a body of one element is reported with status and body
C12_Witness ==
    \E h \in Handlers :
        /\ status[h] = StatusInternalServerError
        /\ body[h].kind = "object"
        /\ body[h].error.kind = "api" /\ body[h].error.status = 404
        /\ Len(body[h].error.body.val) = 1

(* ------------------------------- C13 ----------------------------------- *)

\* the commits of a list before its first commit with a short sha
RECURSIVE BeforeShortSha(_, _)
BeforeShortSha(commits, k) ==
    IF k > Len(commits) \/ Len(commits[k].sha) < ShaLen THEN <<>>
    ELSE <<commits[k]>> \o BeforeShortSha(commits, k + 1)

\* the entries accumulated when the conversion of fetch f faults
AccumulatedAtFault(rs, res, f) ==
    ExpectedEntries(rs, SubSeq(res, 1, f - 1), 1)
    \o [k \in 1 .. Len(BeforeShortSha(res[f].commits, 1)) |->
           EntryOf(rs[f], BeforeShortSha(res[f].commits, 1)[k])]

\* C13: when a successful fetch returns a commit whose sha is shorter than
\* 7, the handler faults at that commit: the loop stops there, no later
\* repository is fetched, no 200 is written and the entries accumulated so
\* far are not returned.
C13_ShortShaFaults ==
    \A h \in Handlers :
        LET f == FaultAt(results[h], 1)
        IN  f # 0 =>
                /\ Done(h)
                /\ Len(results[h]) = f /\ idx[h] = f
                /\ allCommits[h].elems = AccumulatedAtFault(repos[h], results[h], f)
                /\ written[h] = <<StatusInternalServerError>>
                /\ status[h] # StatusOK
                /\ body[h].kind = "empty" /\ body[h].items = <<>>

\* the fault happens with entries accumulated and a repository left
C13_Witness ==
    \E h \in Handlers :
        /\ FaultAt(results[h], 1) = 1
        /\ Len(repos[h]) = 2
        /\ Len(allCommits[h].elems) = 1
        /\ status[h] = StatusInternalServerError

(* ------------------------------- C14 ----------------------------------- *)

\* the upstream calls of a request that have returned
Returned(h) ==
    (IF pc[h] \in {"fetching", "done"} THEN 1 ELSE 0)
    + Cardinality({i \in DOMAIN results[h] : results[h][i].err # "request"})

\* the upstream calls of a request that are in flight
InFlight(h) == Len(calls[h]) - Returned(h)

\* C14: the upstream calls of a request are strictly sequential: at most one
\* is in flight, the listing call has returned before the first commit call
\* is issued, and the commit call of a repository is issued only when the
\* fetches of all repositories listed before it have returned.
C14_CallsSequential ==
    \A h \in Handlers :
        /\ InFlight(h) \in {0, 1}
        /\ InFlight(h) = 1 <=> pc[h] \in {"listing", "fetching"}
        /\ pc[h] = "listing" => calls[h] = <<ReposURL>>
        /\ pc[h] = "fetching" =>
              /\ calls[h][Len(calls[h])] = CommitsURL(repos[h][idx[h]].full_name)
              /\ Len(results[h]) = idx[h] - 1

\* the second commit call is in flight, the first has returned
C14_Witness ==
    \E h \in Handlers :
        /\ pc[h] = "fetching" /\ idx[h] = 2
        /\ Len(calls[h]) = 3 /\ Len(results[h]) = 1
        /\ InFlight(h) = 1

(* ------------------------------- C15 ----------------------------------- *)

\* the body a handler holds: the one of the response it is reading
Held(h) == IF resp[h].kind = "http" THEN 1 ELSE 0

\* the fetch functions of a request that returned after client.Do had given
\* them a response
ReturnedWithResponse(h) ==
    (IF pc[h] \in {"fetching", "done"} /\ err[h].kind # "transport" THEN 1 ELSE 0)
    + Cardinality({i \in DOMAIN results[h] : results[h][i].err \in {"nil", "api", "decode"}})

\* C15: every response body handed over by client.Do is closed exactly once
\* whichever way the fetch function returns: a body is open only while its
\* fetch function reads it; nothing is closed for a call that returned no
\* response; when the request has finished no body is open.
C15_BodiesClosedOnce ==
    \A h \in Handlers :
        /\ opened[h] = ReturnedWithResponse(h) + Held(h)
        /\ closed[h] = ReturnedWithResponse(h)
        /\ Done(h) => Held(h) = 0 /\ opened[h] - closed[h] = 0

\* a request with a fetch that got no response, one answered 404 and one
\* whose body did not decode
C15_Witness ==
    \E h \in Handlers :
        /\ Done(h) /\ Len(results[h]) = 2
        /\ results[h][1].err = "transport"
        /\ results[h][2].err = "api"
        /\ opened[h] = 2 /\ closed[h] = 2 /\ Len(calls[h]) = 3

(* ------------------------------- C16 ----------------------------------- *)

\* the (repository, commit) pairs of the successful fetches, in fetch order
RECURSIVE FetchedPairs(_, _, _)
FetchedPairs(rs, res, i) ==
    IF i > Len(res) THEN <<>>
    ELSE (IF FetchOk(res, i)
          THEN [k \in 1 .. Len(res[i].commits) |-> [repo |-> rs[i], commit |-> res[i].commits[k]]]
          ELSE <<>>)
         \o FetchedPairs(rs, res, i + 1)

\* C16: the entries of a response and the (repository, commit) pairs of the
\* successful fetches correspond one to one: an entry is named by the short
\* name of the repository whose full_name was requested, and its message,
\* time and url are those of the one commit it stands for.
C16_EntryPerPair ==
    \A h \in Handlers :
        status[h] = StatusOK =>
            LET pairs == FetchedPairs(repos[h], results[h], 1)
            IN  /\ Len(body[h].items) = Len(pairs)
                /\ \A k \in DOMAIN pairs :
                      /\ body[h].items[k].repository_name = pairs[k].repo.name
                      /\ body[h].items[k].commit_message = pairs[k].commit.message
                      /\ body[h].items[k].commit_time = pairs[k].commit.date
                      /\ body[h].items[k].commit_url = pairs[k].commit.html_url
                      /\ \E c \in DOMAIN calls[h] :
                            calls[h][c] = CommitsURL(pairs[k].repo.full_name)

\* a response with entries of two repositories and two different commits
C16_Witness ==
    \E h \in Handlers :
        /\ status[h] = StatusOK /\ Len(body[h].items) = 2
        /\ body[h].items[1].repository_name = "a"
        /\ body[h].items[2].repository_name = "b"
        /\ body[h].items[1].commit_message # body[h].items[2].commit_message

(* ------------------------------- C17 ----------------------------------- *)

\* C17: provided every upstream call returns, every request terminates, it
\* has then made at most 1 + N upstream calls, N the number of repositories
\* listed, and it has written exactly one response; nothing is written
\* before it terminates.
C17_TerminatesWithOneResponse ==
    /\ [](\A h \in Handlers :
             /\ Len(calls[h]) <= 1 + Len(repos[h])
             /\ Done(h) => /\ Len(written[h]) = 1
                           /\ written[h][1] \in {StatusOK, StatusInternalServerError}
             /\ ~Done(h) => written[h] = <<>>)
    /\ \A h \in Handlers : (pc[h] \in {"listing", "fetching"}) ~> Done(h)

\* a request that ended after 1 + N calls, N > 0, with the one response 200
C17_Witness ==
    \E h \in Handlers :
        /\ Done(h) /\ Len(repos[h]) = SeqMaxRepos
        /\ Len(calls[h]) = 1 + Len(repos[h])
        /\ written[h] = <<StatusOK>>

(* ------------------------------- C18 ----------------------------------- *)

\* handler h returns from the commits call of repository idx[h]
CommitsReturn(h) ==
    pc[h] = "fetching" /\ resp[h] # NoResp /\ resp'[h] = NoResp

\* C18: a fetchCommits that returns an error returns no commits, also when
\* the decode error came after a part of the array had been decoded; the
\* handler then appends nothing, so a response 200 holds all the commits of
\* the repositories whose fetch succeeded and none of any other.
C18_AllOrNothing ==
    /\ [](\A h \in Handlers :
             /\ \A i \in DOMAIN results[h] :
                   ~FetchOk(results[h], i) => results[h][i].commits = <<>>
             /\ status[h] = StatusOK =>
                   body[h].items = ExpectedEntries(repos[h], results[h], 1))
    /\ [][\A h \in Handlers :
             (CommitsReturn(h) /\ ~FetchOk(results'[h], idx[h])) =>
                 allCommits'[h] = allCommits[h]]_vars

\* a fetch failed in decoding after one commit had been decoded, and the
\* response 200 holds the one entry of the other repository
C18_Witness ==
    \E h \in Handlers :
        /\ status[h] = StatusOK /\ Len(results[h]) = 2
        /\ results[h][1].err = "nil" /\ Len(results[h][1].commits) = 1
        /\ results[h][2].err = "decode" /\ results[h][2].decoded = 1
        /\ Len(body[h].items) = 1

====
